---- MODULE Spec2Model ----
(***************************************************************************)
(* Model of polymarket-autotrader.                                         *)
(*   - the CLOB client (src/src/clob.rs): the session state of a           *)
(*     ClobClient and its operations authenticate, place_limit_order and   *)
(*     cancel_order, with the EIP-712 hashing and the L2 request headers;  *)
(*   - the risk manager (src/src/risk.rs) under check_trade/record_trade;  *)
(*   - the bot (src/src/main.rs): start-up and the trading cycle, with the *)
(*     scanner's full-scan timer, the executor, the strategy filter and    *)
(*     the position tracker;                                               *)
(*   - overlapping place_limit_order / cancel_order calls on one client.   *)
(*                                                                         *)
(* Text (Rust &str / String) is a tuple of one-character strings.          *)
(* keccak256, HMAC-SHA256 and ECDSA are modelled as injective tagged       *)
(* tuples of their inputs.  u256 words are represented by the integer      *)
(* they encode; a 128-bit token id is represented by its canonical decimal *)
(* digits so that the u128 range check is exact.                           *)
(* f64 amounts are exact rationals [n, d], USD amounts whole dollars; the  *)
(* enumerated values are ones on which the f64 arithmetic of the code is   *)
(* exact.                                                                  *)
(***************************************************************************)
EXTENDS Integers, Sequences, FiniteSets, TLC

VARIABLES api_key, api_secret, api_passphrase, authenticated,
          authCount, firstCreds, calls, last,
          config, today, risk_manager,
          trades, clob_client, positions, pc, filtered, scanner

clientVars == <<api_key, api_secret, api_passphrase, authenticated, authCount, firstCreds, calls>>

botVars == <<trades, clob_client, positions, pc, filtered, scanner>>

tradingVars == <<config, today, risk_manager, botVars>>

vars == <<clientVars, last, tradingVars>>

(* ---------------------------- constants ------------------------------- *)

CHAIN_ID == 137

CTF_EXCHANGE == "C5d563A36AE78145C45a50134d48A1215220f80a"

NEG_RISK_CTF_EXCHANGE == "4bFb41d5B3570DeFd03C39a9A4D8dE6Bd8B8982E"

factor == 1000000

(* Successful authenticate() calls are counted up to this bound. *)
MaxAuth == 2

(* ------------------------------ text ---------------------------------- *)

Digits == <<"0", "1", "2", "3", "4", "5", "6", "7", "8", "9">>

DigitChars == {Digits[i] : i \in 1..10}

DigitVal(c) == (CHOOSE i \in 1..10 : Digits[i] = c) - 1

RECURSIVE to_string(_)
(* u64::to_string: the decimal digits of v, no leading zeros, "0" for 0 *)
to_string(v) ==
    IF v < 10 THEN <<Digits[v + 1]>>
    ELSE Append(to_string(v \div 10), Digits[(v % 10) + 1])

(* u128::MAX = 340282366920938463463374607431768211455 *)
U128_MAX ==
    <<"3","4","0","2","8","2","3","6","6","9","2","0","9","3","8","4","6","3","4",
      "6","3","3","7","4","6","0","7","4","3","1","7","6","8","2","1","1","4","5","5">>

(* s without its leading zeros (keeping the last digit) *)
StripZeros(s) ==
    LET nz == {i \in 1..Len(s) : s[i] # "0"}
        first == IF nz = {} THEN Len(s) ELSE CHOOSE i \in nz : \A j \in nz : i <= j
    IN  SubSeq(s, first, Len(s))

(* a <= b for two digit tuples of the same length *)
DigitsLeq(a, b) ==
    LET diff == {i \in 1..Len(a) : a[i] # b[i]}
    IN  \/ diff = {}
        \/ LET m == CHOOSE i \in diff : \A j \in diff : i <= j
           IN  DigitVal(a[m]) < DigitVal(b[m])

(* str::parse::<u128>: an optional leading "+", then one or more decimal   *)
(* digits whose value fits 128 bits; anything else is a ParseIntError.     *)
parse_u128(s) ==
    IF s = <<>> THEN [ok |-> FALSE, val |-> <<"0">>]
    ELSE LET body == IF Head(s) = "+" THEN Tail(s) ELSE s
             canon == StripZeros(body)
         IN  IF body = <<>> \/ \E i \in 1..Len(body) : body[i] \notin DigitChars
             THEN [ok |-> FALSE, val |-> <<"0">>]
             ELSE IF Len(canon) > Len(U128_MAX)
                     \/ (Len(canon) = Len(U128_MAX) /\ ~DigitsLeq(canon, U128_MAX))
             THEN [ok |-> FALSE, val |-> <<"0">>]
             ELSE [ok |-> TRUE, val |-> canon]

(* ---------------------------- base64url ------------------------------- *)

(* The URL_SAFE alphabet restricted to the characters the model uses. *)
B64Chars == {"A", "B", "Q", "R", "-", "_"}

B64Val(c) ==
    CASE c = "A" -> 0  [] c = "B" -> 1  [] c = "Q" -> 16
      [] c = "R" -> 17 [] c = "-" -> 62 [] c = "_" -> 63

(* base64 URL_SAFE decode of one padded 4-character group *)
B64Group(g) ==
    LET v(i) == B64Val(g[i])
    IN  IF g[1] \notin B64Chars \/ g[2] \notin B64Chars THEN [ok |-> FALSE, bytes |-> <<>>]
        ELSE IF g[3] = "=" /\ g[4] = "="
        THEN IF v(2) % 16 = 0
             THEN [ok |-> TRUE, bytes |-> <<v(1) * 4 + v(2) \div 16>>]
             ELSE [ok |-> FALSE, bytes |-> <<>>]
        ELSE IF g[3] \notin B64Chars THEN [ok |-> FALSE, bytes |-> <<>>]
        ELSE IF g[4] = "="
        THEN IF v(3) % 4 = 0
             THEN [ok |-> TRUE, bytes |-> <<v(1) * 4 + v(2) \div 16,
                                           (v(2) % 16) * 16 + v(3) \div 4>>]
             ELSE [ok |-> FALSE, bytes |-> <<>>]
        ELSE IF g[4] \notin B64Chars THEN [ok |-> FALSE, bytes |-> <<>>]
        ELSE [ok |-> TRUE, bytes |-> <<v(1) * 4 + v(2) \div 16,
                                      (v(2) % 16) * 16 + v(3) \div 4,
                                      (v(3) % 4) * 64 + v(4)>>]

RECURSIVE b64url_decode(_)
(* base64::engine::general_purpose::URL_SAFE decode (canonical padding     *)
(* required, padding only in the last group, no stray trailing bits)       *)
b64url_decode(s) ==
    IF s = <<>> THEN [ok |-> TRUE, bytes |-> <<>>]
    ELSE IF Len(s) < 4 THEN [ok |-> FALSE, bytes |-> <<>>]
    ELSE LET g == SubSeq(s, 1, 4)
             rest == SubSeq(s, 5, Len(s))
             d == B64Group(g)
         IN  IF ~d.ok \/ (g[4] = "=" /\ rest # <<>>) THEN [ok |-> FALSE, bytes |-> <<>>]
             ELSE LET r == b64url_decode(rest)
                  IN  IF r.ok THEN [ok |-> TRUE, bytes |-> d.bytes \o r.bytes]
                      ELSE [ok |-> FALSE, bytes |-> <<>>]

(* --------------------------- crypto helpers --------------------------- *)

(* The account: signing key and the address derived from it by new(). *)
signing_key == "KEY"

keccak256(data) == <<"keccak256", data>>

pubkey_to_address(key) == <<"addr", keccak256(<<"pubkey", key>>)>>

(* the address field derived from a key other than the one that signs *)
address_of_other_key == pubkey_to_address("OTHER")

(* ClobClient::new: the address field, derived once from the signing key *)
address == pubkey_to_address(signing_key)

ZERO_ADDRESS == <<"addr", <<"zero">>>>

u256_bytes(v) == <<"u256", v>>

u64_to_bytes32(v) == u256_bytes(v)

addr_to_bytes32(a) == <<"u256", a>>

domain_separator(name, version, chain_id, contract) ==
    IF contract.some
    THEN keccak256(<<keccak256("EIP712Domain(string name,string version,uint256 chainId,address verifyingContract)"),
                     keccak256(name), keccak256(version), u256_bytes(chain_id),
                     addr_to_bytes32(contract.v)>>)
    ELSE keccak256(<<keccak256("EIP712Domain(string name,string version,uint256 chainId)"),
                     keccak256(name), keccak256(version), u256_bytes(chain_id)>>)

clob_auth_hash(addr, timestamp, nonce, message) ==
    keccak256(<<keccak256("ClobAuth(address address,string timestamp,uint256 nonce,string message)"),
                addr_to_bytes32(addr), keccak256(timestamp), nonce, keccak256(message)>>)

(* The twelve field words that order_struct_hash encodes after the type hash. *)
order_words(salt, maker, signer, taker, token_id, maker_amount, taker_amount, expiration, nonce, fee_rate_bps, side, sig_type) ==
    LET parsed == parse_u128(token_id)
        token_id_val == IF parsed.ok THEN parsed.val ELSE <<"0">>
    IN  [salt |-> salt,
         maker |-> addr_to_bytes32(maker),
         signer |-> addr_to_bytes32(signer),
         taker |-> addr_to_bytes32(taker),
         tokenId |-> <<"u256", token_id_val>>,
         makerAmount |-> u256_bytes(maker_amount),
         takerAmount |-> u256_bytes(taker_amount),
         expiration |-> u256_bytes(expiration),
         nonce |-> u256_bytes(nonce),
         feeRateBps |-> u256_bytes(fee_rate_bps),
         side |-> u256_bytes(side),
         signatureType |-> u256_bytes(sig_type)]

order_struct_hash(salt, maker, signer, taker, token_id, maker_amount, taker_amount, expiration, nonce, fee_rate_bps, side, sig_type) ==
    keccak256(<<keccak256("Order(uint256 salt,address maker,address signer,address taker,uint256 tokenId,uint256 makerAmount,uint256 takerAmount,uint256 expiration,uint256 nonce,uint256 feeRateBps,uint8 side,uint8 signatureType)"),
                order_words(salt, maker, signer, taker, token_id, maker_amount,
                            taker_amount, expiration, nonce, fee_rate_bps, side, sig_type)>>)

eip712_digest(domain, struct_hash) == keccak256(<<25, 1, domain, struct_hash>>)

None == [some |-> FALSE]

Some(v) == [some |-> TRUE, v |-> v]

(* hex::decode of one of the two exchange address constants *)
hex_decode(h) == <<"bytes", h>>

(* format!("0x{}", hex::encode(..)) *)
hex0x(bytes) == <<"0x", bytes>>

Err(msg) == [ok |-> FALSE, err |-> msg]

(* Outcome of SigningKey::sign_prehash: a recovery id, or an error. *)
Signed(recid) == [ok |-> TRUE, recid |-> recid]

SignFailed == [ok |-> FALSE]

SignOutcomes == {Signed(0), Signed(1), SignFailed}

(* sign_digest writing the recovery id itself as the last byte *)
sign_digest_raw_recid(digest, k) ==
    IF ~k.ok THEN Err("Signing failed")
    ELSE [ok |-> TRUE,
          sig |-> hex0x([rs |-> <<"ecdsa", signing_key, digest>>, v |-> k.recid % 256,
                         len |-> 64 + 1])]

(* sign_digest: "0x" + hex(r || s || (recid + 27)), or "Signing failed".  *)
(* The buffer is [0u8; 65]: rs stands for its first 64 bytes (r || s), v  *)
(* is its last byte, computed in u8, and len its length in bytes.          *)
sign_digest(digest, k) ==
    IF ~k.ok THEN Err("Signing failed")
    ELSE [ok |-> TRUE,
          sig |-> hex0x([rs |-> <<"ecdsa", signing_key, digest>>, v |-> (k.recid + 27) % 256,
                         len |-> 64 + 1])]

(* ------------------------- text and JSON values ----------------------- *)

Txt(str) ==
    CASE str = "" -> <<>>
      [] str = "k" -> <<"k">>
      [] str = "POST" -> <<"P", "O", "S", "T">>
      [] str = "DELETE" -> <<"D", "E", "L", "E", "T", "E">>
      [] str = "/order" -> <<"/", "o", "r", "d", "e", "r">>
      [] str = "k2" -> <<"k", "2">>
      [] str = "p" -> <<"p">>
      [] str = "p2" -> <<"p", "2">>
      [] str = "AAAA" -> <<"A", "A", "A", "A">>
      [] str = "AQ==" -> <<"A", "Q", "=", "=">>
      [] str = "AA" -> <<"A", "A">>
      [] str = "o1" -> <<"o", "1">>
      [] str = "bad" -> <<"b", "a", "d">>
      [] str = "123" -> <<"1", "2", "3">>
      [] str = "007" -> <<"0", "0", "7">>
      [] str = "+5" -> <<"+", "5">>
      [] str = "abc" -> <<"a", "b", "c">>
      [] str = "-1" -> <<"-", "1">>
      [] str = "0" -> <<"0">>

JStr(t) == [t |-> "string", s |-> t]

JBool(b) == [t |-> "bool", b |-> b]

JNull == [t |-> "null"]

NotJson == [kind |-> "not_json"]

Json(obj) == [kind |-> "json", obj |-> obj]

IsStr(obj, f) == f \in DOMAIN obj /\ obj[f].t = "string"

(* serde: ApiKeyResponse { apiKey: String, secret: String, passphrase: String } *)
ApiKeyResponse(body) ==
    IF body.kind = "json" /\ IsStr(body.obj, "apiKey") /\ IsStr(body.obj, "secret")
                          /\ IsStr(body.obj, "passphrase")
    THEN [ok |-> TRUE, api_key |-> body.obj["apiKey"].s, secret |-> body.obj["secret"].s,
          passphrase |-> body.obj["passphrase"].s]
    ELSE [ok |-> FALSE, api_key |-> <<>>, secret |-> <<>>, passphrase |-> <<>>]

(* serde: OrderResponse { success: bool (default), orderID: String (default), *)
(* errorMsg: Option<String> (default) }                                       *)
OrderResponse(body) ==
    IF body.kind # "json" THEN [ok |-> FALSE]
    ELSE LET o == body.obj
             successOk == "success" \notin DOMAIN o \/ o["success"].t = "bool"
             orderOk == "orderID" \notin DOMAIN o \/ o["orderID"].t = "string"
             errOk == "errorMsg" \notin DOMAIN o \/ o["errorMsg"].t \in {"string", "null"}
         IN  IF ~(successOk /\ orderOk /\ errOk) THEN [ok |-> FALSE]
             ELSE [ok |-> TRUE,
                   success |-> IF "success" \in DOMAIN o THEN o["success"].b ELSE FALSE,
                   order_id |-> IF "orderID" \in DOMAIN o THEN o["orderID"].s ELSE <<>>,
                   error_msg |-> IF IsStr(o, "errorMsg")
                                 THEN [some |-> TRUE, s |-> o["errorMsg"].s]
                                 ELSE [some |-> FALSE, s |-> <<>>]]

(* is_success accepting redirections as well *)
is_success_below_400(status) == status >= 200 /\ status < 400

(* reqwest StatusCode::is_success *)
is_success(status) == status >= 200 /\ status < 300

(* ------------------------------ network ------------------------------- *)

(* Outcomes of send().await: any Err of send(), or a response. NoNet marks *)
(* an invocation that returned before reaching send().                     *)
TransportError == [kind |-> "transport_error"]

Response(status, body) == [kind |-> "response", status |-> status, body |-> body]

NoNet == [kind |-> "none"]

(* send with one resend after a transport failure *)
send_with_retry(req, net) == IF net.kind = "transport_error" THEN <<req, req>> ELSE <<req>>

(* RequestBuilder::send: the requests put on the wire for one send().await *)
send(req, net) == <<req>>

(* The requests an invocation sends: none when it returned before send(). *)
Sent(prep, net) == IF prep.ok THEN send(prep.req, net) ELSE <<>>

Nets(prep, nets) == IF prep.ok THEN nets ELSE {NoNet}

Timestamps == {1700000000}

current_timestamp(secs) == to_string(secs)

(* --------------------- configuration and risk manager ----------------- *)
(* USD amounts (f64 in the code) are whole numbers of dollars here: on     *)
(* these values the f64 sums, differences and comparisons of risk.rs are   *)
(* exact.  A date is the number of the UTC day.                            *)

(* Config::default *)
Config_default ==
    [max_price_cents |-> 10, min_liquidity_usd |-> 500, max_per_trade_usd |-> 10,
     max_daily_spend_usd |-> 100, max_open_positions |-> 50, max_per_market_usd |-> 20,
     max_total_exposure_usd |-> 500, categories |-> {}, auto_sell_multiplier |-> 3,
     partial_sell_multiplier |-> 2, paper_trading |-> TRUE, min_volume_24h |-> 0,
     scan_interval_secs |-> 30, longshot_scan_interval_secs |-> 300]

(* RiskManager::new on day d; market_exposure is a map, here a function    *)
(* whose domain is the set of keys present.                                *)
RiskManager_new(d) ==
    [daily_spent |-> 0, daily_reset_date |-> d, open_position_count |-> 0,
     total_exposure |-> 0, market_exposure |-> <<>>]

(* check_trade, "Reset daily counter if new day" *)
daily_reset(r, d) ==
    IF d # r.daily_reset_date
    THEN [r EXCEPT !.daily_spent = 0, !.daily_reset_date = d]
    ELSE r

Approved(amount) == [ok |-> TRUE, amount |-> amount]

(* the daily budget without what was already spent taken off *)
daily_remaining_unspent(r, cfg) == cfg.max_daily_spend_usd

(* check_trade step 1: what is left of the daily budget *)
daily_remaining(r, cfg) == cfg.max_daily_spend_usd - r.daily_spent

(* market_exposure.get(condition_id).copied().unwrap_or(0.0) *)
current_market_exposure(r, condition_id) ==
    IF condition_id \in DOMAIN r.market_exposure
    THEN r.market_exposure[condition_id]
    ELSE 0

min(a, b) == IF a <= b THEN a ELSE b

(* The value check_trade returns in state r (the daily counter already     *)
(* reset): the first limit that trade_amount would break decides.          *)
check_trade_result(r, condition_id, trade_amount, cfg) ==
    IF r.daily_spent + trade_amount > cfg.max_daily_spend_usd
    THEN IF daily_remaining(r, cfg) <= 0
         THEN Err("Daily spend limit reached")
         ELSE Approved(daily_remaining(r, cfg))
    ELSE IF r.open_position_count >= cfg.max_open_positions
    THEN Err("Max open positions reached")
    ELSE IF r.total_exposure + trade_amount > cfg.max_total_exposure_usd
    THEN IF cfg.max_total_exposure_usd - r.total_exposure <= 0
         THEN Err("Max total exposure reached")
         ELSE Approved(cfg.max_total_exposure_usd - r.total_exposure)
    ELSE IF current_market_exposure(r, condition_id) + trade_amount > cfg.max_per_market_usd
    THEN IF cfg.max_per_market_usd - current_market_exposure(r, condition_id) <= 0
         THEN Err("Max per-market exposure reached")
         ELSE Approved(cfg.max_per_market_usd - current_market_exposure(r, condition_id))
    ELSE Approved(min(trade_amount, cfg.max_per_trade_usd))

(* RiskManager::check_trade called on day d: the manager after the call    *)
(* and the value returned.                                                 *)
check_trade(r, condition_id, trade_amount, cfg, d) ==
    [risk |-> daily_reset(r, d),
     result |-> check_trade_result(daily_reset(r, d), condition_id, trade_amount, cfg)]

(* RiskManager::record_trade *)
record_trade(r, condition_id, amount) ==
    [r EXCEPT !.daily_spent = @ + amount,
              !.total_exposure = @ + amount,
              !.open_position_count = @ + 1,
              !.market_exposure =
                  [c \in DOMAIN @ \cup {condition_id} |->
                      IF c = condition_id
                      THEN current_market_exposure(r, condition_id) + amount
                      ELSE @[c]]]

(* RiskManager::record_close *)
record_close(r, condition_id, amount) ==
    [r EXCEPT !.total_exposure = IF @ - amount >= 0 THEN @ - amount ELSE 0,
              !.open_position_count = IF @ >= 1 THEN @ - 1 ELSE 0,
              !.market_exposure = [c \in DOMAIN @ \ {condition_id} |-> @[c]]]

(* Scanner::new.  An instant is kept as the number of seconds it lies *)
(* before the current one.                                            *)
Scanner_new == [last_full_scan |-> None]

(* main before its first statement: nothing loaded, no component used yet *)
TradingInit ==
    /\ config = Config_default
    /\ today = 0
    /\ risk_manager = RiskManager_new(0)
    /\ trades = <<>>
    /\ clob_client = FALSE
    /\ positions = <<>>
    /\ pc = "start"
    /\ filtered = <<>>
    /\ scanner = Scanner_new

(* ---------------------------- client state ---------------------------- *)

Client == [api_key |-> api_key, api_secret |-> api_secret,
           api_passphrase |-> api_passphrase, authenticated |-> authenticated]

is_authenticated == authenticated

NoCreds == [api_key |-> <<>>, api_secret |-> <<>>, api_passphrase |-> <<>>]

(* no place_limit_order / cancel_order call in flight on the client *)
NoCalls == <<>>

Creds == [api_key |-> api_key, api_secret |-> api_secret,
          api_passphrase |-> api_passphrase]

(* State after ClobClient::new *)
Init ==
    /\ api_key = <<>>
    /\ api_secret = <<>>
    /\ api_passphrase = <<>>
    /\ authenticated = FALSE
    /\ authCount = 0
    /\ calls = NoCalls
    /\ firstCreds = NoCreds
    /\ last = [op |-> "new", pre |-> [api_key |-> <<>>, api_secret |-> <<>>,
                                      api_passphrase |-> <<>>, authenticated |-> FALSE],
               net |-> NoNet, sent |-> <<>>, result |-> [ok |-> TRUE]]
    /\ TradingInit

AuthMessage == "This message attests that I control the given wallet"

LowerCase ==
    <<"a", "b", "c", "d", "e", "f", "g", "h", "i", "j", "k", "l", "m",
      "n", "o", "p", "q", "r", "s", "t", "u", "v", "w", "x", "y", "z">>

UpperCase ==
    <<"A", "B", "C", "D", "E", "F", "G", "H", "I", "J", "K", "L", "M",
      "N", "O", "P", "Q", "R", "S", "T", "U", "V", "W", "X", "Y", "Z">>

upper_char(ch) ==
    IF \E i \in DOMAIN LowerCase : LowerCase[i] = ch
    THEN UpperCase[CHOOSE i \in DOMAIN LowerCase : LowerCase[i] = ch]
    ELSE ch

(* str::to_uppercase, on ASCII text *)
to_uppercase(m) == [i \in DOMAIN m |-> upper_char(m[i])]

(* serde_json::to_string of a JSON value *)
to_json(value) == <<"json", value>>

(* ------------------------------ l2_headers ---------------------------- *)

hmac_sha256(key, message) == <<"hmac_sha256", key, message>>

b64url_encode(bytes) == <<"b64url", bytes>>

(* l2_headers signing the message without the body *)
l2_headers_without_body(c, method, path, body, ts) ==
    LET timestamp == current_timestamp(ts)
        message == timestamp \o to_uppercase(method) \o path
        secret_bytes == b64url_decode(c.api_secret)
    IN  IF ~secret_bytes.ok THEN Err("Failed to decode API secret")
        ELSE [ok |-> TRUE,
              headers |-> [POLY_ADDRESS |-> hex0x(address),
                           POLY_SIGNATURE |-> b64url_encode(hmac_sha256(secret_bytes.bytes, message)),
                           POLY_TIMESTAMP |-> timestamp,
                           POLY_API_KEY |-> c.api_key,
                           POLY_PASSPHRASE |-> c.api_passphrase]]

(* ClobClient::l2_headers at clock reading ts; method, path and body are   *)
(* texts and the message is their concatenation after the timestamp.       *)
l2_headers(c, method, path, body, ts) ==
    LET timestamp == current_timestamp(ts)
        message == timestamp \o to_uppercase(method) \o path \o body
        secret_bytes == b64url_decode(c.api_secret)
    IN  IF ~secret_bytes.ok THEN Err("Failed to decode API secret")
        ELSE [ok |-> TRUE,
              headers |-> [POLY_ADDRESS |-> hex0x(address),
                           POLY_SIGNATURE |-> b64url_encode(hmac_sha256(secret_bytes.bytes, message)),
                           POLY_TIMESTAMP |-> timestamp,
                           POLY_API_KEY |-> c.api_key,
                           POLY_PASSPHRASE |-> c.api_passphrase]]

(* ----------------------------- authenticate --------------------------- *)

(* Lines 69-90: the derive-api-key request, or the error raised before it. *)
authenticate_request(ts, k) ==
    LET timestamp == current_timestamp(ts)
        domain_sep == domain_separator("ClobAuthDomain", "1", CHAIN_ID, None)
        struct_hash == clob_auth_hash(address, timestamp, u256_bytes(0), AuthMessage)
        digest == eip712_digest(domain_sep, struct_hash)
        sig == sign_digest(digest, k)
    IN  IF ~sig.ok THEN sig
        ELSE [ok |-> TRUE,
              req |-> [method |-> "POST", path |-> "/auth/derive-api-key",
                       body |-> [address |-> hex0x(address), timestamp |-> timestamp,
                                 nonce |-> "0", message |-> AuthMessage,
                                 signature |-> sig.sig]]]

(* The result authenticate() returns. *)
authenticate_result(prep, net) ==
    IF ~prep.ok THEN prep
    ELSE IF net.kind = "transport_error" THEN Err("Failed to call derive-api-key")
    ELSE IF ~is_success(net.status)
    THEN [ok |-> FALSE, err |-> "API key derivation failed", text |-> net.body]
    ELSE IF ~ApiKeyResponse(net.body).ok THEN Err("Failed to parse API key response")
    ELSE [ok |-> TRUE]

(* authenticate_store with a failed call clearing the authenticated flag *)
authenticate_store_clears(c, prep, net) ==
    IF authenticate_result(prep, net).ok
    THEN LET creds == ApiKeyResponse(net.body)
         IN  [api_key |-> creds.api_key, api_secret |-> creds.secret,
              api_passphrase |-> creds.passphrase, authenticated |-> TRUE]
    ELSE [c EXCEPT !.authenticated = FALSE]

(* authenticate_store writing each credential field as soon as it is read *)
authenticate_store_partial(c, prep, net) ==
    IF authenticate_result(prep, net).ok
    THEN LET creds == ApiKeyResponse(net.body)
         IN  [api_key |-> creds.api_key, api_secret |-> creds.secret,
              api_passphrase |-> creds.passphrase, authenticated |-> TRUE]
    ELSE IF net.kind = "response" /\ is_success(net.status) /\ net.body.kind = "json"
            /\ IsStr(net.body.obj, "apiKey")
    THEN [c EXCEPT !.api_key = net.body.obj["apiKey"].s]
    ELSE c

(* The client fields after authenticate() returns. *)
authenticate_store(c, prep, net) ==
    IF authenticate_result(prep, net).ok
    THEN LET creds == ApiKeyResponse(net.body)
         IN  [api_key |-> creds.api_key, api_secret |-> creds.secret,
              api_passphrase |-> creds.passphrase, authenticated |-> TRUE]
    ELSE c

AuthBodies ==
    { NotJson,
      Json(<<>>),
      Json([apiKey |-> JStr(Txt("k")), secret |-> JStr(Txt("AAAA"))]),
      Json([apiKey |-> JStr(Txt("k")), secret |-> JNull, passphrase |-> JStr(Txt("p"))]),
      Json([apiKey |-> JStr(Txt("k")), secret |-> JStr(Txt("AAAA")), passphrase |-> JStr(Txt("p"))]),
      Json([apiKey |-> JStr(Txt("k2")), secret |-> JStr(Txt("AQ==")), passphrase |-> JStr(Txt("p2"))]),
      Json([apiKey |-> JStr(Txt("k")), secret |-> JStr(Txt("AA")), passphrase |-> JStr(Txt("p"))]) }

AuthStatuses == {200, 201, 401}

AuthNets == {TransportError} \cup {Response(st, b) : st \in AuthStatuses, b \in AuthBodies}

authenticate ==
    /\ authCount < MaxAuth
    /\ \E ts \in Timestamps, k \in SignOutcomes :
         LET prep == authenticate_request(ts, k)
         IN  \E net \in Nets(prep, AuthNets) :
               LET post == authenticate_store(Client, prep, net)
                   result == authenticate_result(prep, net)
               IN  /\ api_key' = post.api_key
                   /\ api_secret' = post.api_secret
                   /\ api_passphrase' = post.api_passphrase
                   /\ authenticated' = post.authenticated
                   /\ authCount' = IF result.ok THEN authCount + 1 ELSE authCount
                   /\ calls' = calls
                   /\ firstCreds' = IF result.ok /\ authCount = 0
                                    THEN [api_key |-> post.api_key,
                                          api_secret |-> post.api_secret,
                                          api_passphrase |-> post.api_passphrase]
                                    ELSE firstCreds
                   /\ last' = [op |-> "authenticate", pre |-> Client, net |-> net,
                               sent |-> Sent(prep, net), result |-> result]
                   /\ UNCHANGED tradingVars

(* --------------------------- place_limit_order ------------------------ *)

(* `x as u64` for the f64 value n/d (d > 0): truncation toward zero, negative *)
(* values saturate to 0 (the upper saturation is out of the model's range)    *)
as_u64(n, d) == IF n <= 0 THEN 0 ELSE n \div d

(* amounts with the SELL arm computing the BUY pair *)
amounts_noswap(side, price, size) ==
    <<as_u64(price.n * size.n * factor, price.d * size.d),
      as_u64(size.n * factor, size.d)>>

(* (maker_amt, taker_amt) of place_limit_order; price and size are [n, d] *)
amounts(side, price, size) ==
    IF side = "Buy"
    THEN <<as_u64(price.n * size.n * factor, price.d * size.d),
           as_u64(size.n * factor, size.d)>>
    ELSE <<as_u64(size.n * factor, size.d),
           as_u64(price.n * size.n * factor, price.d * size.d)>>

(* order_digest with the CTF exchange as verifying contract of every market *)
order_digest_one_exchange(in, salt) ==
    LET amt == amounts(in.side, in.price, in.size)
        exchange_bytes == hex_decode(CTF_EXCHANGE)
        side_num == IF in.side = "Buy" THEN 0 ELSE 1
        order_domain == domain_separator("CTF Exchange", "1", CHAIN_ID, Some(exchange_bytes))
        order_hash == order_struct_hash(u64_to_bytes32(salt), address, address, ZERO_ADDRESS, in.token_id, amt[1], amt[2], 0, 0, 100, side_num, 2)
    IN  eip712_digest(order_domain, order_hash)

(* Lines 114-138: the digest place_limit_order signs. *)
order_digest(in, salt) ==
    LET amt == amounts(in.side, in.price, in.size)
        exchange_hex == IF in.neg_risk THEN NEG_RISK_CTF_EXCHANGE ELSE CTF_EXCHANGE
        exchange_bytes == hex_decode(exchange_hex)
        side_num == IF in.side = "Buy" THEN 0 ELSE 1
        order_domain == domain_separator("CTF Exchange", "1", CHAIN_ID, Some(exchange_bytes))
        order_hash == order_struct_hash(u64_to_bytes32(salt), address, address, ZERO_ADDRESS, in.token_id, amt[1], amt[2], 0, 0, 100, side_num, 2)
    IN  eip712_digest(order_domain, order_hash)

(* order_payload submitting a fee rate of zero *)
order_payload_no_fee(in, salt, sig_hex) ==
    LET amt == amounts(in.side, in.price, in.size)
        side_str == IF in.side = "Buy" THEN "BUY" ELSE "SELL"
        addr_str == hex0x(address)
    IN  [order |-> [salt |-> to_string(salt),
                    maker |-> addr_str,
                    signer |-> addr_str,
                    taker |-> hex0x(ZERO_ADDRESS),
                    tokenId |-> in.token_id,
                    makerAmount |-> to_string(amt[1]),
                    takerAmount |-> to_string(amt[2]),
                    expiration |-> <<"0">>,
                    nonce |-> <<"0">>,
                    feeRateBps |-> <<"0">>,
                    side |-> side_str,
                    signatureType |-> 2,
                    signature |-> sig_hex],
         owner |-> addr_str,
         orderType |-> "GTC"]

(* Lines 141-163: the JSON payload of POST /order. *)
order_payload(in, salt, sig_hex) ==
    LET amt == amounts(in.side, in.price, in.size)
        side_str == IF in.side = "Buy" THEN "BUY" ELSE "SELL"
        addr_str == hex0x(address)
    IN  [order |-> [salt |-> to_string(salt),
                    maker |-> addr_str,
                    signer |-> addr_str,
                    taker |-> hex0x(ZERO_ADDRESS),
                    tokenId |-> in.token_id,
                    makerAmount |-> to_string(amt[1]),
                    takerAmount |-> to_string(amt[2]),
                    expiration |-> <<"0">>,
                    nonce |-> <<"0">>,
                    feeRateBps |-> <<"1", "0", "0">>,
                    side |-> side_str,
                    signatureType |-> 2,
                    signature |-> sig_hex],
         owner |-> addr_str,
         orderType |-> "GTC"]

(* not_authenticated with the guard left out *)
not_authenticated_unguarded(c) == FALSE

(* `if !self.authenticated { bail!("Not authenticated") }` *)
not_authenticated(c) == ~c.authenticated

(* Lines 112-167: the POST /order request, or the error raised before send(). *)
(* in = [token_id, price, size, side, neg_risk]                               *)
place_limit_order_request(c, in, salt, ts, k) ==
    IF not_authenticated(c) THEN Err("Not authenticated")
    ELSE LET sig == sign_digest(order_digest(in, salt), k)
         IN  IF ~sig.ok THEN sig
             ELSE LET payload == order_payload(in, salt, sig.sig)
                      headers == l2_headers(c, Txt("POST"), Txt("/order"), to_json(payload), ts)
                  IN  IF ~headers.ok THEN headers
                      ELSE [ok |-> TRUE,
                            req |-> [method |-> "POST", path |-> "/order",
                                     body |-> payload, headers |-> headers.headers]]

(* order_result raising an error on a business rejection *)
order_result_bails(resp) ==
    IF resp.success THEN [ok |-> TRUE, resp |-> resp] ELSE Err("Order failed")

(* Lines 172-177: Ok(order_resp) both when success is true and when it is false. *)
order_result(resp) == [ok |-> TRUE, resp |-> resp]

(* The result place_limit_order returns. *)
place_limit_order_result(prep, net) ==
    IF ~prep.ok THEN prep
    ELSE IF net.kind = "transport_error" THEN Err("Failed to post order")
    ELSE IF ~OrderResponse(net.body).ok THEN Err("Failed to parse order response")
    ELSE order_result(OrderResponse(net.body))

OrderBodies ==
    { NotJson,
      Json(<<>>),
      Json([success |-> JBool(TRUE), orderID |-> JStr(Txt("o1"))]),
      Json([success |-> JBool(FALSE), errorMsg |-> JStr(Txt("bad"))]),
      Json([success |-> JStr(Txt("bad"))]) }

OrderStatuses == {200, 400}

OrderNets == {TransportError} \cup {Response(st, b) : st \in OrderStatuses, b \in OrderBodies}

Rat(n, d) == [n |-> n, d |-> d]

Sides == {"Buy", "Sell"}

(* Inputs of the client state machine (Spec). *)
TokenIds == {Txt("123"), Txt("abc")}

Prices == {Rat(1, 2)}

Sizes == {Rat(100, 1)}

Salts == {12345}

OrderSignOutcomes == {Signed(0), SignFailed}

place_limit_order ==
    \E token_id \in TokenIds, price \in Prices, size \in Sizes, side \in Sides,
       neg_risk \in BOOLEAN, salt \in Salts, ts \in Timestamps, k \in OrderSignOutcomes :
         LET in == [token_id |-> token_id, price |-> price, size |-> size,
                    side |-> side, neg_risk |-> neg_risk]
             prep == place_limit_order_request(Client, in, salt, ts, k)
         IN  \E net \in Nets(prep, OrderNets) :
               /\ last' = [op |-> "place_limit_order", pre |-> Client, input |-> in,
                           net |-> net, sent |-> Sent(prep, net),
                           result |-> place_limit_order_result(prep, net)]
               /\ UNCHANGED <<clientVars, tradingVars>>

(* ------------------------------ cancel_order -------------------------- *)

(* Lines 182-187: the DELETE /order request, or the error raised before send(). *)
cancel_order_request(c, order_id, ts) ==
    IF not_authenticated(c) THEN Err("Not authenticated")
    ELSE LET payload == [orderID |-> order_id]
             headers == l2_headers(c, Txt("DELETE"), Txt("/order"), to_json(payload), ts)
         IN  IF ~headers.ok THEN headers
             ELSE [ok |-> TRUE,
                   req |-> [method |-> "DELETE", path |-> "/order",
                            body |-> payload, headers |-> headers.headers]]

(* The result cancel_order returns. *)
cancel_order_result(prep, net) ==
    IF ~prep.ok THEN prep
    ELSE IF net.kind = "transport_error" THEN Err("error sending request")
    ELSE [ok |-> TRUE, value |-> is_success(net.status)]

CancelStatuses == {199, 200, 299, 300, 404}

CancelBodies == {NotJson, Json(<<>>)}

CancelNets == {TransportError} \cup {Response(st, b) : st \in CancelStatuses, b \in CancelBodies}

OrderIds == {Txt("o1"), Txt("")}

cancel_order ==
    \E order_id \in OrderIds, ts \in Timestamps :
         LET prep == cancel_order_request(Client, order_id, ts)
         IN  \E net \in Nets(prep, CancelNets) :
               /\ last' = [op |-> "cancel_order", pre |-> Client,
                           input |-> [order_id |-> order_id], net |-> net,
                           sent |-> Sent(prep, net), result |-> cancel_order_result(prep, net)]
               /\ UNCHANGED <<clientVars, tradingVars>>

Next == authenticate \/ place_limit_order \/ cancel_order

Spec == Init /\ [][Next]_vars

(* ------------- order construction over a wide range of inputs --------- *)

(* 2^128 and a 77-digit token id of the size the exchange issues *)
U128_OVER == SubSeq(U128_MAX, 1, 38) \o <<"6">>

LONG_TOKEN_ID == U128_MAX \o SubSeq(U128_MAX, 1, 38)

AllTokenIds ==
    { Txt("123"), Txt("007"), Txt("+5"), Txt("0"), Txt("abc"), Txt(""), Txt("-1"),
      U128_MAX, U128_OVER, LONG_TOKEN_ID }

AllPrices == {Rat(1, 20), Rat(1, 2), Rat(3, 4)}

AllSizes == {Rat(100, 1), Rat(1, 1), Rat(3, 256), Rat(5, 256)}

AllSalts == {0, 12345}

SomeOrderNets ==
    { TransportError,
      Response(200, Json([success |-> JBool(TRUE), orderID |-> JStr(Txt("o1"))])),
      Response(400, Json([success |-> JBool(FALSE), errorMsg |-> JStr(Txt("bad"))])) }

(* An authenticated client about to run one place_limit_order call. *)
InitOrder ==
    /\ api_key = Txt("k")
    /\ api_secret = Txt("AAAA")
    /\ api_passphrase = Txt("p")
    /\ authenticated = TRUE
    /\ authCount = 1
    /\ calls = NoCalls
    /\ firstCreds = [api_key |-> Txt("k"), api_secret |-> Txt("AAAA"),
                     api_passphrase |-> Txt("p")]
    /\ \E token_id \in AllTokenIds, price \in AllPrices, size \in AllSizes, side \in Sides,
          neg_risk \in BOOLEAN, salt \in AllSalts, ts \in Timestamps, k \in SignOutcomes,
          net \in SomeOrderNets :
            last = [op |-> "call",
                    pre |-> [api_key |-> Txt("k"), api_secret |-> Txt("AAAA"),
                             api_passphrase |-> Txt("p"), authenticated |-> TRUE],
                    input |-> [token_id |-> token_id, price |-> price, size |-> size,
                               side |-> side, neg_risk |-> neg_risk],
                    env |-> [salt |-> salt, ts |-> ts, k |-> k],
                    net |-> net, sent |-> <<>>, result |-> [ok |-> TRUE]]
    /\ TradingInit

sign_and_submit ==
    /\ last.op = "call"
    /\ LET prep == place_limit_order_request(Client, last.input, last.env.salt,
                                             last.env.ts, last.env.k)
           net == IF prep.ok THEN last.net ELSE NoNet
       IN  last' = [op |-> "place_limit_order", pre |-> Client, input |-> last.input,
                    salt |-> last.env.salt, net |-> net, sent |-> Sent(prep, net),
                    result |-> place_limit_order_result(prep, net)]
    /\ UNCHANGED <<clientVars, tradingVars>>

NextOrder == sign_and_submit

SpecOrder == InitOrder /\ [][NextOrder]_vars

(* ------------------ the risk manager under trade requests ------------- *)

(* Days are counted up to this bound. *)
MaxDay == 1

CondIds == {"m1", "m2"}

TradeAmounts == 1..4

(* Configurations with limits small enough for every limit to be met *)
RiskConfigs ==
    { [Config_default EXCEPT !.max_per_trade_usd = pt, !.max_daily_spend_usd = ds,
                             !.max_open_positions = op, !.max_per_market_usd = pm,
                             !.max_total_exposure_usd = te] :
        pt \in {2, 3}, ds \in {3, 5}, op \in {1, 2}, pm \in {2, 4}, te \in {4, 6} }

(* A fresh RiskManager under some fixed configuration; no client session. *)
InitRisk ==
    /\ api_key = <<>>
    /\ api_secret = <<>>
    /\ api_passphrase = <<>>
    /\ authenticated = FALSE
    /\ authCount = 0
    /\ calls = NoCalls
    /\ firstCreds = NoCreds
    /\ config \in RiskConfigs
    /\ today = 0
    /\ risk_manager = RiskManager_new(0)
    /\ trades = <<>>
    /\ clob_client = FALSE
    /\ positions = <<>>
    /\ pc = "start"
    /\ filtered = <<>>
    /\ scanner = Scanner_new
    /\ last = [op |-> "new", pre |-> RiskManager_new(0),
               input |-> [condition_id |-> "m1", trade_amount |-> 0],
               result |-> [ok |-> TRUE, amount |-> 0]]

(* An approval whose trade has not been recorded yet *)
ApprovalPending == last.op = "check_trade" /\ last.result.ok

(* main, step 3: risk_manager.check_trade(opp, trade_amount, &config) *)
risk_check_trade ==
    /\ ~ApprovalPending
    /\ \E condition_id \in CondIds, trade_amount \in TradeAmounts :
         LET out == check_trade(risk_manager, condition_id, trade_amount, config, today)
         IN  /\ risk_manager' = out.risk
             /\ last' = [op |-> "check_trade", pre |-> risk_manager,
                         input |-> [condition_id |-> condition_id,
                                    trade_amount |-> trade_amount],
                         result |-> out.result]
    /\ UNCHANGED <<clientVars, config, today, botVars>>

(* main, step 3: risk_manager.record_trade(&opp.condition_id, approved_amount) *)
risk_record_trade ==
    /\ ApprovalPending
    /\ risk_manager' = record_trade(risk_manager, last.input.condition_id, last.result.amount)
    /\ last' = [op |-> "record_trade", pre |-> risk_manager,
                input |-> last.input, result |-> last.result]
    /\ UNCHANGED <<clientVars, config, today, botVars>>

(* Utc::now().date_naive() moves on to the next day *)
new_day ==
    /\ today < MaxDay
    /\ today' = today + 1
    /\ UNCHANGED <<clientVars, config, risk_manager, last, botVars>>

NextRisk == risk_check_trade \/ risk_record_trade \/ new_day

SpecRisk == InitRisk /\ [][NextRisk]_vars

(* ------------------------------ the bot ------------------------------- *)
(* main: start-up, then the cycle scan, trade, price update, exit check.   *)
(* Prices and share counts are rationals [n, d] with d > 0.                *)

(* At most this many trades are recorded by the executor. *)
MaxTrades == 3

RECURSIVE gcd(_, _)
gcd(a, b) == IF b = 0 THEN a ELSE gcd(b, a % b)

(* the f64 quotient n / d of two positive whole numbers *)
div(n, d) == Rat(n \div gcd(n, d), d \div gcd(n, d))

rat_leq(a, b) == a.n * b.d <= b.n * a.d

(* f64::min *)
rat_min(a, b) == IF rat_leq(a, b) THEN a ELSE b

rat_add(a, b) == div(a.n * b.d + b.n * a.d, a.d * b.d)

(* Config::max_price_decimal *)
max_price_decimal(cfg) == Rat(cfg.max_price_cents, 100)

(* Markets the scanner can report; `keywords` is the set of categories     *)
(* one of whose keywords the question contains.                            *)
Opportunities ==
    { [condition_id |-> "m1", token_id |-> Txt("123"), yes_price |-> Rat(1, 16),
       no_price |-> Rat(15, 16), liquidity |-> 1000, volume_24h |-> 0, score |-> 2,
       neg_risk |-> FALSE, keywords |-> {}],
      [condition_id |-> "m2", token_id |-> Txt("007"), yes_price |-> Rat(15, 16),
       no_price |-> Rat(1, 16), liquidity |-> 1000, volume_24h |-> 50, score |-> 3,
       neg_risk |-> TRUE, keywords |-> {"crypto"}],
      [condition_id |-> "m2", token_id |-> Txt("007"), yes_price |-> Rat(1, 2),
       no_price |-> Rat(1, 2), liquidity |-> 1000, volume_24h |-> 50, score |-> 5,
       neg_risk |-> TRUE, keywords |-> {"crypto"}],
      [condition_id |-> "m1", token_id |-> Txt(""), yes_price |-> Rat(1, 16),
       no_price |-> Rat(15, 16), liquidity |-> 100, volume_24h |-> 0, score |-> 1,
       neg_risk |-> FALSE, keywords |-> {}] }

(* What the scans of one cycle put into all_opportunities *)
ScanResults ==
    {<<>>} \cup {<<o>> : o \in Opportunities}
           \cup {<<o1, o2>> : o1 \in Opportunities, o2 \in Opportunities}

(* PositionTracker::position_ids *)
position_ids(ps) == {ps[i].condition_id : i \in DOMAIN ps}

(* the closure of filter_opportunities *)
tradeable(opp, cfg, existing_positions) ==
    /\ rat_leq(rat_min(opp.yes_price, opp.no_price), max_price_decimal(cfg))
    /\ ~(opp.liquidity < cfg.min_liquidity_usd)
    /\ opp.condition_id \notin existing_positions
    /\ opp.token_id # <<>>
    /\ (cfg.categories # {} => cfg.categories \cap opp.keywords # {})
    /\ ~(opp.volume_24h < cfg.min_volume_24h)

RECURSIVE insert_by_score(_, _)
insert_by_score(sorted, opp) ==
    IF sorted = <<>> THEN <<opp>>
    ELSE IF Head(sorted).score >= opp.score
    THEN <<Head(sorted)>> \o insert_by_score(Tail(sorted), opp)
    ELSE <<opp>> \o sorted

(* stable sort, highest score first *)
RECURSIVE sort_by_score(_)
sort_by_score(opps) ==
    IF opps = <<>> THEN <<>>
    ELSE insert_by_score(sort_by_score(SubSeq(opps, 1, Len(opps) - 1)), opps[Len(opps)])

(* Strategy::filter_opportunities *)
filter_opportunities(opportunities, cfg, existing_positions) ==
    sort_by_score(SelectSeq(opportunities,
                            LAMBDA opp : tradeable(opp, cfg, existing_positions)))

(* The Trade record place_buy_order builds; the random id, the question    *)
(* and the url are left out, times are day numbers.                        *)
Trade(opp, amount_usd, status, d, filled_at, order_id) ==
    [condition_id |-> opp.condition_id, token_id |-> opp.token_id,
     side |-> IF rat_leq(opp.yes_price, opp.no_price) THEN "YES" ELSE "NO",
     price |-> rat_min(opp.yes_price, opp.no_price),
     size |-> div(amount_usd * rat_min(opp.yes_price, opp.no_price).d,
                  rat_min(opp.yes_price, opp.no_price).n),
     cost_usd |-> amount_usd, status |-> status, placed_at |-> d,
     filled_at |-> filled_at, order_id |-> order_id]

(* the arguments place_buy_order passes to place_limit_order *)
buy_order_input(opp, amount_usd) ==
    [token_id |-> opp.token_id,
     price |-> rat_min(opp.yes_price, opp.no_price),
     size |-> div(amount_usd * rat_min(opp.yes_price, opp.no_price).d,
                  rat_min(opp.yes_price, opp.no_price).n),
     side |-> "Buy", neg_risk |-> opp.neg_risk]

(* place_buy_order going live whatever the configuration says *)
paper_mode_off(cfg) == FALSE

(* place_buy_order: `if config.paper_trading` *)
paper_mode(cfg) == cfg.paper_trading

(* Executor::place_buy_order with executor state ex = [trades, clob_client] *)
(* and client c: the trades afterwards, the requests sent and the result.  *)
place_buy_order(ex, c, opp, amount_usd, cfg, d, salt, ts, k, net) ==
    IF paper_mode(cfg)
    THEN LET trade == Trade(opp, amount_usd, "PaperTrade", d, Some(d), None)
         IN  [trades |-> Append(ex.trades, trade), sent |-> <<>>,
              result |-> [ok |-> TRUE, trade |-> trade]]
    ELSE IF ~ex.clob_client
    THEN [trades |-> ex.trades, sent |-> <<>>,
          result |-> Err("CLOB client not initialized - set POLYMARKET_PRIVATE_KEY")]
    ELSE LET prep == place_limit_order_request(c, buy_order_input(opp, amount_usd),
                                               salt, ts, k)
             res == place_limit_order_result(prep, net)
             trade == IF res.ok
                      THEN Trade(opp, amount_usd,
                                 IF res.resp.success THEN "Pending" ELSE "Failed", d, None,
                                 IF res.resp.success THEN Some(res.resp.order_id) ELSE None)
                      ELSE Trade(opp, amount_usd, "Failed", d, None, None)
         IN  [trades |-> Append(ex.trades, trade), sent |-> Sent(prep, net),
              result |-> IF res.ok THEN [ok |-> TRUE, trade |-> trade] ELSE res]

(* the Position add_from_trade creates; the derived display fields         *)
(* (current_value, pnl, pnl_pct) and the texts are left out                *)
Position(trade) ==
    [condition_id |-> trade.condition_id, token_id |-> trade.token_id,
     side |-> trade.side, entry_price |-> trade.price, current_price |-> trade.price,
     shares |-> trade.size, cost_usd |-> trade.cost_usd, entered_at |-> trade.placed_at,
     partial_sold |-> FALSE]

(* add_from_trade, "Average in" *)
average_in(pos, trade) ==
    [pos EXCEPT !.shares = rat_add(pos.shares, trade.size),
                !.cost_usd = pos.cost_usd + trade.cost_usd,
                !.entry_price = div((pos.cost_usd + trade.cost_usd)
                                        * rat_add(pos.shares, trade.size).d,
                                    rat_add(pos.shares, trade.size).n)]

(* PositionTracker::add_from_trade *)
add_from_trade(ps, trade) ==
    IF trade.condition_id \in position_ids(ps)
    THEN [i \in DOMAIN ps |-> IF ps[i].condition_id = trade.condition_id
                              THEN average_in(ps[i], trade)
                              ELSE ps[i]]
    ELSE Append(ps, Position(trade))

(* PositionTracker::update_prices; price_updates maps some condition ids   *)
(* to their new price                                                      *)
update_prices(ps, price_updates) ==
    [i \in DOMAIN ps |-> IF ps[i].condition_id \in DOMAIN price_updates
                         THEN [ps[i] EXCEPT !.current_price =
                                                price_updates[ps[i].condition_id]]
                         ELSE ps[i]]

(* check_exits: current_price / entry_price >= multiplier *)
price_multiple_reaches(pos, multiplier) ==
    pos.current_price.n * pos.entry_price.d
        >= multiplier * pos.entry_price.n * pos.current_price.d

(* the ExitSignal check_exits emits for one position, if any *)
exit_signal(pos, cfg) ==
    IF price_multiple_reaches(pos, cfg.auto_sell_multiplier)
    THEN <<[condition_id |-> pos.condition_id, signal_type |-> "FullExit",
            shares_to_sell |-> pos.shares]>>
    ELSE IF ~pos.partial_sold /\ price_multiple_reaches(pos, cfg.partial_sell_multiplier)
    THEN <<[condition_id |-> pos.condition_id, signal_type |-> "PartialExit",
            shares_to_sell |-> div(pos.shares.n, pos.shares.d * 2)]>>
    ELSE <<>>

(* PositionTracker::check_exits *)
RECURSIVE check_exits(_, _)
check_exits(ps, cfg) ==
    IF ps = <<>> THEN <<>>
    ELSE exit_signal(Head(ps), cfg) \o check_exits(Tail(ps), cfg)

(* Configurations config.json can hold while the bot runs *)
BotConfigs ==
    { [Config_default EXCEPT !.max_daily_spend_usd = 15, !.max_open_positions = 2,
                             !.paper_trading = paper,
                             !.longshot_scan_interval_secs = 60] : paper \in BOOLEAN }

(* Elapsed times are counted up to this many seconds. *)
MaxElapsed == 60

(* Seconds the volume-spike scan can take *)
ScanDurations == {0, 30}

(* Scanner::needs_full_scan *)
needs_full_scan(sc, cfg) ==
    IF ~sc.last_full_scan.some THEN TRUE
    ELSE sc.last_full_scan.v >= cfg.longshot_scan_interval_secs

(* scan_longshots on the scanner: last_full_scan = Some(Utc::now()) at its *)
(* end, unless a request failed and `?` returned before it.                *)
scan_longshots(sc, ok) == IF ok THEN [sc EXCEPT !.last_full_scan = Some(0)] ELSE sc

(* the scanner after secs more seconds *)
elapse(sc, secs) ==
    IF sc.last_full_scan.some
    THEN [sc EXCEPT !.last_full_scan = Some(min(sc.last_full_scan.v + secs, MaxElapsed))]
    ELSE sc

(* main, lines 103-123: which of the two periodic scans run in a cycle, and *)
(* the scanner after them.                                                  *)
periodic_scans(sc, cfg, longshots_ok, spike_secs) ==
    LET full == needs_full_scan(sc, cfg)
        after_longshots == IF full THEN scan_longshots(sc, longshots_ok) ELSE sc
        after_spikes == elapse(after_longshots, spike_secs)
    IN  [longshots |-> full,
         mispriced |-> needs_full_scan(after_spikes, cfg),
         scanner |-> after_spikes]

(* Buy prices the Gamma API can report for a tracked market *)
MarketPrices == {Rat(1, 16), Rat(1, 8), Rat(3, 16)}

InitBot ==
    /\ api_key = <<>>
    /\ api_secret = <<>>
    /\ api_passphrase = <<>>
    /\ authenticated = FALSE
    /\ authCount = 0
    /\ calls = NoCalls
    /\ firstCreds = NoCreds
    /\ TradingInit
    /\ last = [op |-> "new", sent |-> <<>>]

(* main, lines 37-85: load the configuration; in live mode stop without a  *)
(* private key, else init_live_trading, whose failure is only logged.      *)
startup ==
    /\ pc = "start"
    /\ \E cfg \in BotConfigs, key_set \in BOOLEAN, ts \in Timestamps, k \in SignOutcomes :
         LET prep == authenticate_request(ts, k)
         IN  \E net \in Nets(prep, AuthNets) :
               LET live == ~cfg.paper_trading /\ key_set
                   ok == live /\ authenticate_result(prep, net).ok
                   c == IF ok THEN authenticate_store(Client, prep, net) ELSE Client
               IN  /\ config' = cfg
                   /\ api_key' = c.api_key
                   /\ api_secret' = c.api_secret
                   /\ api_passphrase' = c.api_passphrase
                   /\ authenticated' = c.authenticated
                   /\ authCount' = IF ok THEN 1 ELSE 0
                   /\ calls' = calls
                   /\ firstCreds' = IF ok THEN [api_key |-> c.api_key,
                                                api_secret |-> c.api_secret,
                                                api_passphrase |-> c.api_passphrase]
                                    ELSE firstCreds
                   /\ clob_client' = ok
                   /\ pc' = IF ~cfg.paper_trading /\ ~key_set THEN "stopped" ELSE "scan"
                   /\ last' = [op |-> "startup",
                               sent |-> IF live THEN Sent(prep, net) ELSE <<>>,
                               live_init |-> IF ~live THEN "none"
                                             ELSE IF ok THEN "ok" ELSE "failed"]
    /\ UNCHANGED <<today, risk_manager, trades, positions, filtered, scanner>>

(* main, lines 92-136: reload the configuration, scan, filter *)
scan ==
    /\ pc = "scan"
    /\ \E cfg \in BotConfigs,
          all_opportunities \in IF Len(trades) < MaxTrades THEN ScanResults ELSE {<<>>},
          longshots_ok \in BOOLEAN, spike_secs \in ScanDurations :
         \E ran \in {periodic_scans(scanner, cfg, longshots_ok, spike_secs)} :
            /\ config' = cfg
            /\ scanner' = ran.scanner
            /\ filtered' = filter_opportunities(all_opportunities, cfg, position_ids(positions))
            /\ pc' = IF filtered' = <<>> THEN "prices" ELSE "trade"
            /\ last' = [op |-> "scan", sent |-> <<>>,
                        ran |-> [longshots |-> ran.longshots, mispriced |-> ran.mispriced]]
    /\ UNCHANGED <<clientVars, today, risk_manager, trades, clob_client, positions>>

(* main, lines 139-162: one pass of the loop over the filtered opportunities *)
execute_trade ==
    /\ pc = "trade"
    /\ filtered # <<>>
    /\ \E chk \in {check_trade(risk_manager, Head(filtered).condition_id,
                                config.max_per_trade_usd, config, today)} :
         IF ~chk.result.ok
         THEN /\ risk_manager' = chk.risk
              /\ filtered' = <<>>
              /\ pc' = "prices"
              /\ last' = [op |-> "check_trade", sent |-> <<>>]
              /\ UNCHANGED <<trades, positions>>
         ELSE \E salt \in Salts, ts \in Timestamps, k \in OrderSignOutcomes,
                 net \in SomeOrderNets :
                \E out \in {place_buy_order([trades |-> trades, clob_client |-> clob_client],
                                            Client, Head(filtered), chk.result.amount,
                                            config, today, salt, ts, k, net)} :
                    /\ trades' = out.trades
                    /\ risk_manager' = IF out.result.ok
                                       THEN record_trade(chk.risk, Head(filtered).condition_id,
                                                         chk.result.amount)
                                       ELSE chk.risk
                    /\ positions' = IF out.result.ok
                                    THEN add_from_trade(positions, out.result.trade)
                                    ELSE positions
                    /\ filtered' = Tail(filtered)
                    /\ pc' = IF Tail(filtered) = <<>> THEN "prices" ELSE "trade"
                    /\ last' = [op |-> "place_buy_order", sent |-> out.sent,
                                result |-> out.result]
    /\ UNCHANGED <<clientVars, config, today, clob_client, scanner>>

(* What fetch_current_prices can return for the tracked markets *)
PriceUpdates(ids) ==
    UNION { [S -> MarketPrices] : S \in SUBSET ids }

(* main, lines 165-177: fetch the prices of the tracked positions *)
fetch_prices ==
    /\ pc = "prices"
    /\ \E price_updates \in PriceUpdates(position_ids(positions)) :
         positions' = update_prices(positions, price_updates)
    /\ pc' = "exits"
    /\ last' = [op |-> "update_prices", sent |-> <<>>]
    /\ UNCHANGED <<clientVars, config, today, risk_manager, trades, clob_client, filtered,
                   scanner>>

(* main, lines 179-200: the exit signals are logged and notified, then the *)
(* cycle sleeps for scan_interval_secs.                                    *)
exit_signals ==
    /\ pc = "exits"
    /\ pc' = "scan"
    /\ last' = [op |-> "check_exits", sent |-> <<>>,
                signals |-> check_exits(positions, config)]
    /\ scanner' = elapse(scanner, config.scan_interval_secs)
    /\ UNCHANGED <<clientVars, config, today, risk_manager, trades, clob_client,
                   positions, filtered>>

NextBot == startup \/ scan \/ execute_trade \/ fetch_prices \/ exit_signals

SpecBot == InitBot /\ [][NextBot]_vars

(* main never leaves its loop: a step that can be taken is taken. *)
SpecBotLive == InitBot /\ [][NextBot]_vars /\ WF_vars(NextBot)

(* ------------------- the order struct hash on argument pairs ---------- *)

OrderFields ==
    {"salt", "maker", "signer", "taker", "token_id", "maker_amount", "taker_amount",
     "expiration", "nonce", "fee_rate_bps", "side", "sig_type"}

(* Values each argument of order_struct_hash is drawn from *)
FieldValues(f) ==
    CASE f = "salt" -> {u64_to_bytes32(0), u64_to_bytes32(12345)}
      [] f \in {"maker", "signer", "taker"} -> {address, ZERO_ADDRESS}
      [] f = "token_id" -> {Txt("123"), Txt("007"), <<"7">>, Txt("abc"), Txt("")}
      [] f \in {"maker_amount", "taker_amount"} -> {0, 5000000, 100000000}
      [] f \in {"expiration", "nonce"} -> {0, 1}
      [] f = "fee_rate_bps" -> {0, 100}
      [] f = "side" -> {0, 1}
      [] f = "sig_type" -> {0, 2}

(* Argument lists of the kind place_limit_order passes (lines 136-137) *)
OrderArgs ==
    { [salt |-> s, maker |-> m, signer |-> m, taker |-> ZERO_ADDRESS, token_id |-> t,
       maker_amount |-> ma, taker_amount |-> 100000000, expiration |-> 0, nonce |-> 0,
       fee_rate_bps |-> 100, side |-> sd, sig_type |-> 2] :
        s \in FieldValues("salt"), m \in FieldValues("maker"),
        t \in FieldValues("token_id"), ma \in FieldValues("maker_amount"),
        sd \in FieldValues("side") }

order_words_of(x) ==
    order_words(x.salt, x.maker, x.signer, x.taker, x.token_id, x.maker_amount, x.taker_amount, x.expiration, x.nonce, x.fee_rate_bps, x.side, x.sig_type)

order_struct_hash_of(x) ==
    order_struct_hash(x.salt, x.maker, x.signer, x.taker, x.token_id, x.maker_amount, x.taker_amount, x.expiration, x.nonce, x.fee_rate_bps, x.side, x.sig_type)

(* Two argument lists, equal or differing in exactly one argument, about   *)
(* to be hashed.                                                           *)
InitHash ==
    /\ api_key = <<>>
    /\ api_secret = <<>>
    /\ api_passphrase = <<>>
    /\ authenticated = FALSE
    /\ authCount = 0
    /\ calls = NoCalls
    /\ firstCreds = NoCreds
    /\ TradingInit
    /\ \E a \in OrderArgs, f \in OrderFields :
         \E v \in FieldValues(f) :
            last = [op |-> "args", a |-> a, b |-> [a EXCEPT ![f] = v]]

hash_orders ==
    /\ last.op = "args"
    /\ last' = [op |-> "order_struct_hash", a |-> last.a, b |-> last.b,
                words_a |-> order_words_of(last.a), words_b |-> order_words_of(last.b),
                hash_a |-> order_struct_hash_of(last.a),
                hash_b |-> order_struct_hash_of(last.b)]
    /\ UNCHANGED <<clientVars, tradingVars>>

NextHash == hash_orders

SpecHash == InitHash /\ [][NextHash]_vars

(* ----------------------- L2 headers on input pairs --------------------- *)

L2Timestamps == {1700000000, 1700000001}

L2Methods == {Txt("POST"), <<"p", "o", "s", "t">>, Txt("DELETE")}

L2Paths == {Txt("/order"), Txt("/order") \o <<"/", "1">>}

L2Bodies == {<<>>, <<"/", "1">>, <<"{", "}">>}

L2Inputs ==
    [ts : L2Timestamps, method : L2Methods, path : L2Paths, body : L2Bodies]

(* An authenticated client about to compute the L2 headers of two requests *)
InitL2 ==
    /\ api_key = Txt("k")
    /\ api_secret = Txt("AAAA")
    /\ api_passphrase = Txt("p")
    /\ authenticated = TRUE
    /\ authCount = 1
    /\ calls = NoCalls
    /\ firstCreds = [api_key |-> Txt("k"), api_secret |-> Txt("AAAA"),
                     api_passphrase |-> Txt("p")]
    /\ TradingInit
    /\ \E x \in L2Inputs, y \in L2Inputs : last = [op |-> "inputs", x |-> x, y |-> y]

sign_requests ==
    /\ last.op = "inputs"
    /\ last' = [op |-> "l2_headers", x |-> last.x, y |-> last.y,
                hx |-> l2_headers(Client, last.x.method, last.x.path, last.x.body, last.x.ts),
                hy |-> l2_headers(Client, last.y.method, last.y.path, last.y.body, last.y.ts)]
    /\ UNCHANGED <<clientVars, tradingVars>>

NextL2 == sign_requests

SpecL2 == InitL2 /\ [][NextL2]_vars

(* ------------------- sign_digest on digests and outcomes --------------- *)

SigOrderInputs ==
    [token_id : {Txt("123"), Txt("007"), Txt("abc")}, price : AllPrices, size : {Rat(100, 1)},
     side : Sides, neg_risk : BOOLEAN]

(* the digests the client signs: of orders, and of the auth message *)
SigDigests ==
    {order_digest(in, salt) : in \in SigOrderInputs, salt \in AllSalts}
      \cup {eip712_digest(domain_separator("ClobAuthDomain", "1", CHAIN_ID, None),
                           clob_auth_hash(address, current_timestamp(ts), u256_bytes(0), AuthMessage)) : ts \in Timestamps}

(* A client about to sign one digest. *)
InitSig ==
    /\ api_key = <<>>
    /\ api_secret = <<>>
    /\ api_passphrase = <<>>
    /\ authenticated = FALSE
    /\ authCount = 0
    /\ calls = NoCalls
    /\ firstCreds = NoCreds
    /\ TradingInit
    /\ \E digest \in SigDigests, k \in SignOutcomes :
          last = [op |-> "digest", digest |-> digest, k |-> k]

sign_one_digest ==
    /\ last.op = "digest"
    /\ last' = [op |-> "sign_digest", digest |-> last.digest, k |-> last.k,
                result |-> sign_digest(last.digest, last.k)]
    /\ UNCHANGED <<clientVars, tradingVars>>

NextSig == sign_one_digest

SpecSig == InitSig /\ [][NextSig]_vars

(* ------------- concurrent order calls on a shared client -------------- *)
(* place_limit_order and cancel_order take &self and are async: calls on   *)
(* one client may overlap.  A call reads the authenticated flag first      *)
(* (lines 112, 182), the stored credentials when it builds the L2 headers  *)
(* (lines 165, 185), and then awaits the response (lines 169, 188).        *)

(* Number of calls that may be in flight at once. *)
MaxCalls == 2

CallIds == 1..MaxCalls

Idle == [stage |-> "idle"]

ConcSecrets == {Txt("AAAA"), Txt("AA")}

ConcOrderInputs ==
    [token_id : {Txt("123")}, price : Prices, size : Sizes, side : Sides, neg_risk : {FALSE}]

ConcOrderNets ==
    { TransportError,
      Response(200, Json([success |-> JBool(TRUE), orderID |-> JStr(Txt("o1"))])),
      Response(400, Json([success |-> JBool(FALSE), errorMsg |-> JStr(Txt("bad"))])) }

ConcCancelNets == {TransportError, Response(200, NotJson), Response(404, NotJson)}

(* An authenticated client shared by MaxCalls tasks, none of them started. *)
InitConc ==
    /\ api_key = Txt("k")
    /\ api_secret \in ConcSecrets
    /\ api_passphrase = Txt("p")
    /\ authenticated = TRUE
    /\ authCount = 1
    /\ calls = [i \in CallIds |-> Idle]
    /\ firstCreds = [api_key |-> Txt("k"), api_secret |-> api_secret,
                     api_passphrase |-> Txt("p")]
    /\ last = [op |-> "new", call |-> 0]
    /\ TradingInit

(* the client fields after a call that clears the api key on return *)
order_call_store_clears_key(c) == [c EXCEPT !.api_key = <<>>]

(* The client fields after place_limit_order / cancel_order return: both *)
(* take &self and assign no field.                                       *)
order_call_store(c) == c

(* The client as one call has read it: the flag at its first statement, *)
(* the credentials at its l2_headers call.                               *)
client_as_read(flag_read, c) == [c EXCEPT !.authenticated = flag_read]

(* The request a call prepares from the client fields it has read. *)
call_request(call, c) ==
    IF call.op = "place_limit_order"
    THEN place_limit_order_request(c, call.input, call.env.salt, call.env.ts, call.env.k)
    ELSE cancel_order_request(c, call.input.order_id, call.env.ts)

call_result(call, prep, net) ==
    IF call.op = "place_limit_order"
    THEN place_limit_order_result(prep, net)
    ELSE cancel_order_result(prep, net)

call_nets(call) == IF call.op = "place_limit_order" THEN ConcOrderNets ELSE ConcCancelNets

(* Line 112: place_limit_order enters and reads self.authenticated. *)
begin_place_limit_order(i) ==
    /\ calls[i].stage = "idle"
    /\ \E in \in ConcOrderInputs, salt \in Salts, ts \in Timestamps, k \in OrderSignOutcomes :
         calls' = [calls EXCEPT ![i] = [stage |-> "checked", op |-> "place_limit_order",
                                        pre |-> Client, flag_read |-> authenticated,
                                        input |-> in,
                                        env |-> [salt |-> salt, ts |-> ts, k |-> k]]]
    /\ last' = [op |-> "begin_place_limit_order", call |-> i]
    /\ UNCHANGED <<api_key, api_secret, api_passphrase, authenticated, authCount, firstCreds>>
    /\ UNCHANGED tradingVars

(* Line 182: cancel_order enters and reads self.authenticated. *)
begin_cancel_order(i) ==
    /\ calls[i].stage = "idle"
    /\ \E order_id \in OrderIds, ts \in Timestamps :
         calls' = [calls EXCEPT ![i] = [stage |-> "checked", op |-> "cancel_order",
                                        pre |-> Client, flag_read |-> authenticated,
                                        input |-> [order_id |-> order_id],
                                        env |-> [salt |-> 0, ts |-> ts, k |-> Signed(0)]]]
    /\ last' = [op |-> "begin_cancel_order", call |-> i]
    /\ UNCHANGED <<api_key, api_secret, api_passphrase, authenticated, authCount, firstCreds>>
    /\ UNCHANGED tradingVars

(* Lines 114-167 and 183-187: the call signs, reads the credentials in *)
(* l2_headers and has its request ready, or fails before send().        *)
prepare_request(i) ==
    /\ calls[i].stage = "checked"
    /\ \E prep \in {call_request(calls[i], client_as_read(calls[i].flag_read, Client))} :
         calls' = [calls EXCEPT ![i] = [stage |-> "prepared", op |-> calls[i].op,
                                        pre |-> calls[i].pre,
                                        flag_read |-> calls[i].flag_read,
                                        input |-> calls[i].input, env |-> calls[i].env,
                                        prep |-> prep]]
    /\ last' = [op |-> "prepare_request", call |-> i]
    /\ UNCHANGED <<api_key, api_secret, api_passphrase, authenticated, authCount, firstCreds>>
    /\ UNCHANGED tradingVars

(* Lines 168-177 and 188-189: send().await and the value returned. *)
complete_call(i) ==
    /\ calls[i].stage = "prepared"
    /\ \E net \in Nets(calls[i].prep, call_nets(calls[i])), post \in {order_call_store(Client)} :
         /\ calls' = [calls EXCEPT ![i] = [stage |-> "done", op |-> calls[i].op,
                                           pre |-> calls[i].pre,
                                           input |-> calls[i].input, env |-> calls[i].env,
                                           net |-> net,
                                           sent |-> Sent(calls[i].prep, net),
                                           result |-> call_result(calls[i], calls[i].prep, net),
                                           overlapped |-> {j \in CallIds \ {i} : calls[j].stage \in {"checked", "prepared"}}]]
         /\ api_key' = post.api_key
         /\ api_secret' = post.api_secret
         /\ api_passphrase' = post.api_passphrase
         /\ authenticated' = post.authenticated
    /\ last' = [op |-> "complete_call", call |-> i]
    /\ UNCHANGED <<authCount, firstCreds, tradingVars>>

NextConc ==
    \E i \in CallIds :
        \/ begin_place_limit_order(i)
        \/ begin_cancel_order(i)
        \/ prepare_request(i)
        \/ complete_call(i)

SpecConc == InitConc /\ [][NextConc]_vars

(* ------------------------------ properties ---------------------------- *)

ClientOps == {"authenticate", "place_limit_order", "cancel_order"}

OrderOps == {"place_limit_order", "cancel_order"}

GotResponse == last.sent # <<>> /\ last.net.kind = "response"

(* The field words under the signature of a sent order:                   *)
(* signature = 0x[rs = ecdsa(key, digest)], digest = keccak(0x19 0x01     *)
(* domain structHash), structHash = keccak(typeHash words)                *)
SignedWords(req) == req.body.order.signature[2].rs[3][2][4][2][2]

(* C1: a client starts unauthenticated with empty credentials; the        *)
(* authenticated flag turns true only in an authenticate() call that got  *)
(* a 2xx response with a well-formed credential body; once true, no       *)
(* operation makes it false again.                                        *)
C1_AuthenticatedTerminal ==
    /\ (~is_authenticated /\ Creds = NoCreds)
    /\ [][/\ (authenticated => authenticated')
          /\ (~authenticated /\ authenticated' =>
                /\ last'.op = "authenticate"
                /\ last'.net.kind = "response"
                /\ last'.net.status >= 200 /\ last'.net.status <= 299
                /\ ApiKeyResponse(last'.net.body).ok)]_vars

C1_Witness ==
    /\ last.op \in ClientOps
    /\ last.pre.authenticated
    /\ ~last.result.ok
    /\ authenticated

AuthFails(net) ==
    \/ net.kind \in {"none", "transport_error"}
    \/ net.status < 200 \/ net.status > 299
    \/ ~ApiKeyResponse(net.body).ok

AuthenticateOk == authenticate /\ last'.result.ok /\ authenticated'

(* C2: when authenticate() fails (nothing sent, transport error, non-2xx, *)
(* or a 2xx body that is not a credential object) it returns an error,    *)
(* leaves the three credentials and the flag as they were, and a later    *)
(* authenticate() can still succeed.                                      *)
C2_FailedAuthLeavesState ==
    last.op = "authenticate" =>
        /\ AuthFails(last.net) = ~last.result.ok
        /\ (~last.result.ok =>
              /\ Client = last.pre
              /\ ENABLED AuthenticateOk)

C2_Witness ==
    /\ last.op = "authenticate"
    /\ ~last.result.ok
    /\ ~authenticated
    /\ last.net.kind = "response"
    /\ last.net.status = 200
    /\ last.net.body.kind = "json"
    /\ IsStr(last.net.body.obj, "apiKey")

(* C3: an unauthenticated client sends no POST /order or DELETE /order:   *)
(* place_limit_order and cancel_order return an error, send nothing and   *)
(* leave the client unchanged; every order request that is sent comes     *)
(* from a client with a completed successful authenticate().              *)
C3_NoOrderRequestUnauthenticated ==
    last.op \in OrderOps =>
        /\ (~last.pre.authenticated =>
              last.sent = <<>> /\ ~last.result.ok /\ Client = last.pre)
        /\ (last.sent # <<>> => authCount > 0)

C3_Witness ==
    /\ last.op \in OrderOps
    /\ ~last.pre.authenticated
    /\ ~last.result.ok

(* C4: after the first successful authenticate() no later operation,      *)
(* further authenticate() calls included, changes apiKey, apiSecret or    *)
(* apiPassphrase.                                                         *)
C4_CredentialsWrittenOnce == authCount > 0 => Creds = firstCreds

(* C5: a tokenId that does not parse as a non-negative decimal integer is *)
(* never replaced by zero: place_limit_order returns an error and no      *)
(* order is signed or submitted for it.                                   *)
C5_TokenIdParseFailureIsError ==
    (last.op = "place_limit_order" /\ last.pre.authenticated
        /\ ~parse_u128(last.input.token_id).ok) =>
            ~last.result.ok /\ last.sent = <<>>

(* round(n/d) for n >= 0, d > 0 *)
Round(n, d) == (2 * n + d) \div (2 * d)

(* C6: for every BUY order with 0 < price < 1 and size > 0, makerAmount   *)
(* is price*size*1,000,000 rounded to the nearest integer and takerAmount *)
(* is size*1,000,000 rounded to the nearest integer.                      *)
C6_BuyAmountsRounded ==
    (last.op = "place_limit_order" /\ last.sent # <<>> /\ last.input.side = "Buy"
        /\ parse_u128(last.input.token_id).ok) =>
        LET p == last.input.price
            z == last.input.size
            o == last.sent[1].body.order
        IN  /\ o.makerAmount = to_string(Round(p.n * z.n * factor, p.d * z.d))
            /\ o.takerAmount = to_string(Round(z.n * factor, z.d))

(* C7: the SELL order's (makerAmount, takerAmount) is the BUY order's     *)
(* (takerAmount, makerAmount) for the same price and size, in the payload *)
(* and in the signed words.                                               *)
C7_SellSwapsBuyAmounts ==
    (last.op = "place_limit_order" /\ last.sent # <<>> /\ last.input.side = "Sell") =>
        LET buy == amounts("Buy", last.input.price, last.input.size)
            o == last.sent[1].body.order
            w == SignedWords(last.sent[1])
        IN  /\ o.makerAmount = to_string(buy[2])
            /\ o.takerAmount = to_string(buy[1])
            /\ w.makerAmount = u256_bytes(buy[2])
            /\ w.takerAmount = u256_bytes(buy[1])

C7_Witness ==
    /\ last.op = "place_limit_order"
    /\ last.sent # <<>>
    /\ last.input.side = "Sell"
    /\ last.input.price = Rat(1, 20)
    /\ last.input.size = Rat(100, 1)
    /\ last.sent[1].body.order.makerAmount = to_string(100000000)
    /\ last.sent[1].body.order.takerAmount = to_string(5000000)

(* C8 as stated: on an authenticated client place_limit_order returns an  *)
(* error only for a transport failure or an unparseable response body; a  *)
(* well-formed response with success=false is returned as Ok.  (Calls in  *)
(* which the curve operation itself fails are left aside here.)           *)
C8_ErrorOnlyTransportOrParse ==
    (last.op = "place_limit_order" /\ last.pre.authenticated) =>
        /\ ((~last.result.ok /\ last.result.err # "Signing failed") =>
              /\ last.sent # <<>>
              /\ (last.net.kind = "transport_error" \/ ~OrderResponse(last.net.body).ok))
        /\ ((GotResponse /\ OrderResponse(last.net.body).ok) => last.result.ok)

(* C8 amended: on an authenticated client place_limit_order returns an    *)
(* error exactly when signing fails or the stored api secret is not valid *)
(* base64url (then nothing is sent), the transport fails, or the response *)
(* body does not deserialize as an OrderResponse; a well-formed response  *)
(* with success=false is returned as Ok carrying success=false and        *)
(* errorMsg.                                                              *)
C8_ErrorCauses ==
    (last.op = "place_limit_order" /\ last.pre.authenticated) =>
        LET badSecret == ~b64url_decode(last.pre.api_secret).ok
            signFailed == ~last.result.ok /\ last.result.err = "Signing failed"
            parsed == OrderResponse(last.net.body)
        IN  /\ (last.sent = <<>>) = (badSecret \/ signFailed)
            /\ (~last.result.ok) =
                  (\/ last.sent = <<>>
                   \/ last.net.kind = "transport_error"
                   \/ ~parsed.ok)
            /\ ((GotResponse /\ parsed.ok) =>
                  /\ last.result.ok
                  /\ last.result.resp.success = parsed.success
                  /\ last.result.resp.error_msg = parsed.error_msg)

C8_Witness ==
    /\ last.op = "place_limit_order"
    /\ GotResponse
    /\ last.result.ok
    /\ ~last.result.resp.success
    /\ last.result.resp.error_msg.some

(* C9: on an authenticated client, cancel_order returns true exactly when *)
(* the status of the DELETE /order response is 2xx and false, without an  *)
(* error, for every other status, whatever the response body.             *)
C9_CancelResultIsStatus ==
    (last.op = "cancel_order" /\ last.pre.authenticated) =>
        LET is2xx == GotResponse /\ last.net.status >= 200 /\ last.net.status <= 299
        IN  /\ (last.result.ok /\ last.result.value) = is2xx
            /\ (GotResponse /\ ~is2xx => last.result.ok /\ ~last.result.value)

C9_Witness ==
    /\ last.op = "cancel_order"
    /\ GotResponse
    /\ last.net.status = 404
    /\ last.result.ok
    /\ ~last.result.value

(* C10: each invocation of authenticate, place_limit_order or             *)
(* cancel_order sends at most one HTTP request; a transport failure is    *)
(* returned as the error of that invocation and a non-2xx answer to       *)
(* authenticate as an error carrying the body, with no resend.            *)
C10_AtMostOneRequest ==
    last.op \in ClientOps =>
        /\ Len(last.sent) <= 1
        /\ (last.net.kind = "transport_error" => Len(last.sent) = 1 /\ ~last.result.ok)
        /\ ((last.op = "authenticate" /\ last.net.kind = "response"
                /\ (last.net.status < 200 \/ last.net.status > 299)) =>
              ~last.result.ok /\ last.result.text = last.net.body)

C10_Witness ==
    /\ last.op \in ClientOps
    /\ Len(last.sent) = 1
    /\ last.net.kind = "transport_error"
    /\ ~last.result.ok

(* C11: under a fixed configuration, whatever check_trade calls are made,  *)
(* each approved one followed by record_trade with the approved amount,    *)
(* the money recorded as spent today never exceeds max_daily_spend_usd.    *)
C11_DailySpendWithinLimit ==
    risk_manager.daily_spent <= config.max_daily_spend_usd

(* A trade cut down to what was left of the daily budget has been recorded *)
(* and the budget is used up.                                              *)
C11_Witness ==
    /\ last.op = "record_trade"
    /\ last.pre.daily_spent > 0
    /\ last.pre.daily_spent + last.input.trade_amount > config.max_daily_spend_usd
    /\ last.result.amount < last.input.trade_amount
    /\ risk_manager.daily_spent = config.max_daily_spend_usd

(* C12: under a fixed configuration, with every approved check_trade       *)
(* followed by record_trade, the number of open positions never exceeds    *)
(* max_open_positions, and check_trade approves nothing while the number   *)
(* of open positions is max_open_positions or more.                        *)
C12_OpenPositionsWithinLimit ==
    /\ risk_manager.open_position_count <= config.max_open_positions
    /\ (last.op = "check_trade" /\ last.result.ok)
           => last.pre.open_position_count < config.max_open_positions

(* C13: under a fixed configuration, with every approved check_trade       *)
(* followed by record_trade with the approved amount, the total exposure   *)
(* never exceeds max_total_exposure_usd.                                   *)
C13_TotalExposureWithinLimit ==
    risk_manager.total_exposure <= config.max_total_exposure_usd

(* C14: under a fixed configuration, with every approved check_trade       *)
(* followed by record_trade with the approved amount, the exposure         *)
(* recorded for any market never exceeds max_per_market_usd.               *)
C14_MarketExposureWithinLimit ==
    \A c \in DOMAIN risk_manager.market_exposure :
        risk_manager.market_exposure[c] <= config.max_per_market_usd

(* C15: whatever the state of the risk manager and the amount asked for,   *)
(* an amount approved by check_trade never exceeds max_per_trade_usd.      *)
C15_ApprovedWithinPerTrade ==
    (last.op = "check_trade" /\ last.result.ok)
        => last.result.amount <= config.max_per_trade_usd

(* C16: whenever place_buy_order runs with config.paper_trading true it    *)
(* sends nothing to the CLOB (no POST /order) and appends exactly one      *)
(* trade, of status PaperTrade and without order id.                       *)
C16_PaperTradingPlacesNoOrder ==
    [][(last'.op = "place_buy_order" /\ config.paper_trading)
          => /\ last'.sent = <<>>
             /\ Len(trades') = Len(trades) + 1
             /\ SubSeq(trades', 1, Len(trades)) = trades
             /\ trades'[Len(trades')].status = "PaperTrade"
             /\ trades'[Len(trades')].order_id = None]_vars

(* A paper trade was just placed by an executor that holds an              *)
(* authenticated client.                                                   *)
C16_Witness ==
    /\ last.op = "place_buy_order"
    /\ config.paper_trading
    /\ clob_client /\ authenticated
    /\ trades # <<>>
    /\ trades[Len(trades)].status = "PaperTrade"

(* the tracked position of market c has reached auto_sell_multiplier times *)
(* its entry price                                                         *)
FullExitDue(c) ==
    \E i \in DOMAIN positions :
        /\ positions[i].condition_id = c
        /\ price_multiple_reaches(positions[i], config.auto_sell_multiplier)

(* market c is no longer tracked and its exposure has been released *)
Closed(c) ==
    /\ c \notin position_ids(positions)
    /\ c \notin DOMAIN risk_manager.market_exposure

(* C17: whenever the current price of a tracked position reaches           *)
(* auto_sell_multiplier times its entry price, the position is eventually  *)
(* sold: it leaves the tracker and its exposure is released.               *)
C17_AutoSellEventually ==
    \A c \in CondIds : FullExitDue(c) ~> Closed(c)

(* the digest carried by the signature of a request *)
SignedDigest(req) == req.body.order.signature[2].rs[3]

(* C18: the digest signed for an order differs from the digest of the same *)
(* order (same salt, maker, token id, amounts, side) with the negative-    *)
(* risk flag toggled.                                                      *)
C18_NegRiskChangesDigest ==
    (last.op = "place_limit_order" /\ last.sent # <<>>)
        => /\ SignedDigest(last.sent[1]) = order_digest(last.input, last.salt)
           /\ SignedDigest(last.sent[1])
                  # order_digest([last.input EXCEPT !.neg_risk = ~@], last.salt)

(* An order of a negative-risk market was signed and sent. *)
C18_Witness ==
    /\ last.op = "place_limit_order"
    /\ last.sent # <<>>
    /\ last.input.neg_risk
    /\ SignedDigest(last.sent[1]) = order_digest(last.input, last.salt)

(* C19: two argument lists of order_struct_hash that differ in exactly one *)
(* of the twelve arguments give different field words and a different      *)
(* hash; equal argument lists give the same hash.                          *)
C19_HashSensitiveToEveryField ==
    last.op = "order_struct_hash"
        => /\ (last.a = last.b) => (last.hash_a = last.hash_b)
           /\ (last.a # last.b) => /\ last.words_a # last.words_b
                                   /\ last.hash_a # last.hash_b

L2Parts == {"ts", "method", "path", "body"}

(* the parts in which two inputs of l2_headers differ *)
Differing(x, y) == {f \in L2Parts : x[f] # y[f]}

(* an input with its method in upper case *)
Uppercased(x) == [x EXCEPT !.method = to_uppercase(@)]

C21_ConcurrentCallsIndependent ==
    \A i \in DOMAIN calls :
        /\ calls[i].stage # "idle" => Client = calls[i].pre
        /\ calls[i].stage = "done" =>
             LET alone == call_request(calls[i], calls[i].pre)
             IN  /\ calls[i].sent = Sent(alone, calls[i].net)
                 /\ calls[i].result = call_result(calls[i], alone, calls[i].net)

(* two calls done, requests sent by both, the first one having returned *)
(* while the second was between its first statement and its response    *)
C21_Witness ==
    /\ DOMAIN calls = CallIds
    /\ \A i \in {1, 2} : calls[i].stage = "done" /\ calls[i].sent # <<>>
    /\ 2 \in calls[1].overlapped
    /\ calls[1].op = "place_limit_order"
    /\ calls[2].op = "cancel_order"

(* C22: every signature sign_digest produces is "0x" followed by the hex  *)
(* of exactly 65 bytes r || s || v, whose last byte v is recoveryId + 27   *)
(* with recoveryId 0 or 1: v is 27 or 28 and the u8 addition never wraps.  *)
C22_SignatureLayout ==
    (last.op = "sign_digest" /\ last.result.ok) =>
        /\ last.result.sig[1] = "0x"
        /\ last.result.sig[2].len = 65
        /\ last.k.recid \in {0, 1}
        /\ last.result.sig[2].v = last.k.recid + 27
        /\ last.result.sig[2].v \in {27, 28}

(* an order digest signed with recovery id 1: v = 28 *)
C22_Witness ==
    /\ last.op = "sign_digest"
    /\ last.result.ok
    /\ last.k.recid = 1
    /\ last.result.sig[2].v = 28
    /\ last.digest \in {order_digest(in, 12345) : in \in SigOrderInputs}

(* ECDSA public key recovery (secp256k1) from (r, s, recoveryId) against a  *)
(* digest: it returns the signer's public key when the signature was made   *)
(* over that digest and the recovery id is the one signing returned, and    *)
(* an unrelated key otherwise.  k is the outcome of the signing call.       *)
recover_from_prehash(digest, rs, recid, k) ==
    IF rs[1] = "ecdsa" /\ rs[3] = digest /\ k.ok /\ recid = k.recid
    THEN <<"pubkey", rs[2]>>
    ELSE <<"pubkey", <<"unrelated", rs, recid, digest>>>>

(* the address of a public key: the last 20 bytes of its keccak256 *)
address_of_pubkey(pubkey) == <<"addr", keccak256(pubkey)>>

C23_FixedOrderFields ==
    (last.op = "place_limit_order" /\ last.sent # <<>>) =>
        LET body == last.sent[1].body
            o == body.order
            w == SignedWords(last.sent[1])
        IN  /\ o.maker = hex0x(address) /\ o.signer = hex0x(address)
            /\ body.owner = hex0x(address)
            /\ o.taker = hex0x(ZERO_ADDRESS)
            /\ o.expiration = <<"0">> /\ o.nonce = <<"0">>
            /\ o.feeRateBps = <<"1", "0", "0">>
            /\ o.signatureType = 2
            /\ body.orderType = "GTC"
            /\ w.maker = addr_to_bytes32(address) /\ w.signer = addr_to_bytes32(address)
            /\ w.taker = addr_to_bytes32(ZERO_ADDRESS)
            /\ w.expiration = u256_bytes(0) /\ w.nonce = u256_bytes(0)
            /\ w.feeRateBps = u256_bytes(100)
            /\ w.signatureType = u256_bytes(2)

(* a SELL order on a negative-risk market with an unparseable token id, *)
(* signed and sent                                                       *)
C23_Witness ==
    /\ last.op = "place_limit_order"
    /\ last.sent # <<>>
    /\ last.input.side = "Sell"
    /\ last.input.neg_risk
    /\ last.input.token_id = <<"a", "b", "c">>
    /\ last.input.price = Rat(3, 4)
    /\ last.sent[1].body.order.feeRateBps = <<"1", "0", "0">>

(* the text is a decimal numeral: one or more digits and nothing else *)
IsNumeral(str) == str # <<>> /\ \A i \in 1..Len(str) : str[i] \in DigitChars

(* C29: for every order place_limit_order submits, the signed field values *)
(* equal the values serialized in the payload: the signed tokenId is the    *)
(* integer the payload's tokenId string denotes, the signed side 0/1 is the *)
(* payload's BUY/SELL, and the signed amounts and salt are the payload's    *)
(* decimal strings.                                                         *)
C29_SignedFieldsEqualPayload ==
    (last.op = "place_limit_order" /\ last.sent # <<>>) =>
        LET o == last.sent[1].body.order
            w == SignedWords(last.sent[1])
        IN  /\ IsNumeral(o.tokenId)
            /\ w.tokenId = <<"u256", StripZeros(o.tokenId)>>
            /\ w.side = u256_bytes(IF o.side = "BUY" THEN 0 ELSE 1)
            /\ o.makerAmount = to_string(w.makerAmount[2])
            /\ o.takerAmount = to_string(w.takerAmount[2])
            /\ o.salt = to_string(w.salt[2])

(* C27: in every iteration of the main loop in which the full longshot *)
(* scan is run, scan_mispriced is run too.                              *)
C27_MispricedRunsWithLongshots ==
    (last.op = "scan" /\ last.ran.longshots) => last.ran.mispriced

(* C25: a live order the exchange rejects (trade status Failed) creates no *)
(* position and consumes no risk budget: the position tracker and the      *)
(* amounts of the risk manager are as they were before it.                 *)
C25_RejectedOrderAddsNoPosition ==
    [][(last'.op = "place_buy_order" /\ last'.result.ok
           /\ last'.result.trade.status = "Failed")
          => /\ positions' = positions
             /\ risk_manager'.daily_spent = risk_manager.daily_spent
             /\ risk_manager'.total_exposure = risk_manager.total_exposure
             /\ risk_manager'.open_position_count = risk_manager.open_position_count
             /\ risk_manager'.market_exposure = risk_manager.market_exposure]_vars

(* C26: no market is bought twice: over any run of the main loop the *)
(* trades placed (paper or live) have pairwise different condition   *)
(* ids, also when one cycle's scans report a market more than once.  *)
C26_OneBuyPerMarket ==
    \A i \in DOMAIN trades : \A j \in DOMAIN trades :
        i # j => trades[i].condition_id # trades[j].condition_id

LiveInitFailed == last.op = "startup" /\ last.live_init = "failed" /\ ~config.paper_trading

ExecutedAsPaperTrade ==
    last.op = "place_buy_order" =>
        /\ last.result.ok
        /\ last.result.trade.status = "PaperTrade"
        /\ last.sent = <<>>

(* C28: if live-trading initialisation fails at startup while            *)
(* config.paper_trading is false, every opportunity approved afterwards  *)
(* is executed as a paper trade (status PaperTrade) and no order is sent. *)
C28_FallsBackToPaperTrading == [](LiveInitFailed => []ExecutedAsPaperTrade)

====
